---- MODULE Spec2Model ----
(***************************************************************************)
(* Model of the Pascal VOC conversion scripts                              *)
(*   voc_conversion_scripts/voc_to_hdf5.py      (container serializer)     *)
(*   voc_conversion_scripts/voc_to_tfrecords.py (sharded serializer)       *)
(*                                                                         *)
(* Three specifications share the module:                                  *)
(*   Spec       - voc_to_hdf5._main, one step per loop iteration           *)
(*   SpecShards - voc_to_tfrecords.process_dataset, one step per shard     *)
(*                open / record write / shard close                        *)
(*   SpecAnno   - the two annotation parsers applied to one annotation     *)
(* Python sequences are 0-based; TLA+ sequences are 1-based, so index k of *)
(* the program is position k + 1 of the modelling sequence.                *)
(***************************************************************************)
EXTENDS Integers, Sequences, FiniteSets, TLC

VARIABLES
    \* ---- voc_to_hdf5._main ----
    nLines,      \* number of lines of each ImageSets/Main/<set>.txt list file
    shift,       \* which sample annotation each identifier's file holds
    pc,          \* the add_to_dataset call _main is in, or "close"
    status,      \* "running", "aborted" (an exception propagated), "done"
    err,         \* the exception that aborted the run, "none" otherwise
    i,           \* add_to_dataset's loop variable i (Unbound before the 1st iteration)
    last_2007,   \* _main's last_2007 (Unbound before it is assigned)
    images,      \* images[split]: the split's 'images' dataset
    boxes,       \* boxes[split] : the split's 'boxes' dataset
    writes,      \* history: writes[split][k] = number of assignments to index k-1
    closed,      \* voc_h5file.close() has been executed
    \* ---- voc_to_tfrecords.process_dataset ----
    image_paths, \* image_paths[k+1]: the pixel <<height, width>> of the JPEG at path k
    num_shards,
    shard_ranges,\* 0-based boundaries, as a sequence of num_shards + 1 integers
    spc,         \* "start", "open", "write", "returned", "aborted"
    shard,       \* loop variable of the outer loop
    cur,         \* loop variable i of the inner loop (next index to process)
    writer,      \* writer[s+1]: "NOT_STARTED", "WRITING" or "CLOSED" for shard s
    opens,       \* history: opens[s+1] = number of TFRecordWriter(...) calls for shard s
    closes,      \* history: closes[s+1] = number of writer.close() calls for shard s
    shardFile,   \* shardFile[s+1]: the records appended to shard s's file
    counter,
    \* ---- the annotation parsers ----
    anno,        \* the annotation file: [height, width, objects]
    h5_out,      \* [ran, value]: the array get_boxes_for_id returned
    tf_out       \* [ran, value]: the list process_anno returned

varsC == <<nLines, shift, pc, status, err, i, last_2007, images, boxes, writes, closed>>
varsS == <<image_paths, num_shards, shard_ranges, spc, shard, cur, writer, opens,
           closes, shardFile, counter>>
varsA == <<anno, h5_out, tf_out>>
vars  == <<varsC, varsS, varsA>>

\* ------------------------------------------------------------------------
\* Bounds of the model
\* ------------------------------------------------------------------------
MaxIds == 2
MaxObjs == 2
MaxImages == 10
MaxShards == 6

Unbound == -1
NotRun == [ran |-> FALSE, value |-> <<>>]
Returned(v) == [ran |-> TRUE, value |-> v]

\* ------------------------------------------------------------------------
\* The class list and the annotation parsers
\* ------------------------------------------------------------------------
classes ==
    << "aeroplane", "bicycle", "bird", "boat", "bottle", "bus", "car", "cat",
       "chair", "cow", "diningtable", "dog", "horse", "motorbike", "person",
       "pottedplant", "sheep", "sofa", "train", "tvmonitor" >>

\* `label in classes`: a linear scan of the list
RECURSIVE InList(_, _)
InList(label, lst) ==
    IF lst = <<>> THEN FALSE
    ELSE IF Head(lst) = label THEN TRUE
    ELSE InList(label, Tail(lst))

\* classes.index(label): the 0-based position of the first occurrence
RECURSIVE ListIndex(_, _)
ListIndex(label, lst) ==
    IF Head(lst) = label THEN 0 ELSE 1 + ListIndex(label, Tail(lst))

\* int(text) / float(text) on the element texts the sample annotations use
IntOfText(t) ==
    CASE t = "0" -> 0
      [] t = "1" -> 1
      [] t = "2" -> 2
      [] t = "3" -> 3
      [] t = "4" -> 4
      [] t = "10" -> 10
      [] t = "20" -> 20
      [] t = "30" -> 30
      [] t = "40" -> 40
      [] t = "50" -> 50

\* the texts of one <bndbox>: xmin, ymin, xmax, ymax
BndBoxes == { <<"10", "20", "30", "40">>, <<"1", "2", "3", "4">> }
Names == {"person", "dog", "unicorn"}
DifficultTexts == {"0", "1"}

\* one <object> element
ObjectEntries ==
    [name : Names, difficult : DifficultTexts, bndbox : BndBoxes]

\* the <size> element's height and width texts
Sizes == { <<"40", "50">>, <<"50", "40">> }

\* the loop's `continue` condition, lines 70-72 (hdf5) and 74-76 (tfrecords)
SkipsMutantDifficult(obj) == ~InList(obj.name, classes)
Skips(obj) ==
    ~InList(obj.name, classes) \/ IntOfText(obj.difficult) = 1

\* the 5-tuple built at voc_to_hdf5.py lines 74-76
bbox(obj) ==
    << ListIndex(obj.name, classes), IntOfText(obj.bndbox[1]),
       IntOfText(obj.bndbox[2]), IntOfText(obj.bndbox[3]), IntOfText(obj.bndbox[4]) >>

\* boxes.extend(bbox)
extendMutantNoClass(lst, tuple) == lst \o Tail(tuple)
extend(lst, tuple) == lst \o tuple

\* get_boxes_for_id: the loop over root.iter('object'), returning the flat array
RECURSIVE BoxesLoop(_, _)
BoxesLoop(objs, acc) ==
    IF objs = <<>> THEN acc
    ELSE IF Skips(Head(objs)) THEN BoxesLoop(Tail(objs), acc)
    ELSE BoxesLoop(Tail(objs), extend(acc, bbox(Head(objs))))

get_boxes_for_id(a) == BoxesLoop(a.objects, <<>>)

\* float(text) / height: the exact quotient, kept as <<numerator, denominator>>
FloatDiv(n, d) == <<n, d>>

\* the dict built at voc_to_tfrecords.py lines 78-84
annoBox(obj, height, width) ==
    [ class |-> ListIndex(obj.name, classes),
      y_min |-> FloatDiv(IntOfText(obj.bndbox[2]), height),
      x_min |-> FloatDiv(IntOfText(obj.bndbox[1]), width),
      y_max |-> FloatDiv(IntOfText(obj.bndbox[4]), height),
      x_max |-> FloatDiv(IntOfText(obj.bndbox[3]), width) ]

RECURSIVE AnnoLoop(_, _, _, _)
AnnoLoop(objs, height, width, acc) ==
    IF objs = <<>> THEN acc
    ELSE IF Skips(Head(objs)) THEN AnnoLoop(Tail(objs), height, width, acc)
    ELSE AnnoLoop(Tail(objs), height, width,
                  Append(acc, annoBox(Head(objs), height, width)))

process_anno(a) ==
    AnnoLoop(a.objects, IntOfText(a.height), IntOfText(a.width), <<>>)

\* ------------------------------------------------------------------------
\* voc_to_hdf5: the source tree
\* ------------------------------------------------------------------------
sets_from_2007 == << <<"2007", "train">>, <<"2007", "val">> >>
train_set == << <<"2012", "train">> >>
val_set == << <<"2012", "val">> >>
test_set == << <<"2007", "test">> >>

ListFiles ==
    { <<"2007", "train">>, <<"2007", "val">>, <<"2007", "test">>,
      <<"2012", "train">>, <<"2012", "val">> }

\* the sample annotation files of the source tree
AnnoSamples ==
    << [height |-> "40", width |-> "50", objects |-> <<>>],
       [height |-> "40", width |-> "50", objects |->
          << [name |-> "person", difficult |-> "0", bndbox |-> <<"10", "20", "30", "40">>],
             [name |-> "dog", difficult |-> "1", bndbox |-> <<"1", "2", "3", "4">>] >>],
       [height |-> "50", width |-> "40", objects |->
          << [name |-> "dog", difficult |-> "0", bndbox |-> <<"1", "2", "3", "4">>],
             [name |-> "unicorn", difficult |-> "0", bndbox |-> <<"10", "20", "30", "40">>],
             [name |-> "person", difficult |-> "0", bndbox |-> <<"10", "20", "30", "40">>] >>] >>

\* the content of VOC<year>/Annotations/<image_id>.xml
AnnoFile(year, image_id) ==
    AnnoSamples[((image_id[2] + shift + (IF year = "2012" THEN 1 ELSE 0))
                  % Len(AnnoSamples)) + 1]

\* the lines of VOC<year>/ImageSets/Main/<image_set>.txt, stripped: line k of the
\* list file of <image_set> is the identifier <<image_set, k>>
ListLines(year, image_set) ==
    [k \in 1..nLines[<<year, image_set>>] |-> <<image_set, k>>]

\* get_ids: ids.extend(...) for each (year, image_set) of datasets, in order
RECURSIVE get_ids(_)
get_ids(datasets) ==
    IF datasets = <<>> THEN <<>>
    ELSE ListLines(Head(datasets)[1], Head(datasets)[2]) \o get_ids(Tail(datasets))

\* get_image_for_id: the bytes of VOC<year>/JPEGImages/<image_id>.jpg
get_image_for_id(year, image_id) == <<"jpg", year, image_id>>

\* _main lines 143-147
train_ids == get_ids(train_set)
val_ids == get_ids(val_set)
test_ids == get_ids(test_set)
train_ids_2007 == get_ids(sets_from_2007)
total_train_ids == Len(train_ids) + Len(train_ids_2007)

Splits == {"train", "val", "test"}
Empty == <<>>    \* an entry of a variable-length dataset that was never assigned

\* the shape= argument of create_dataset, lines 165-178
DatasetShape(split) ==
    CASE split = "train" -> total_train_ids
      [] split = "val" -> Len(val_ids)
      [] split = "test" -> Len(test_ids)

\* ------------------------------------------------------------------------
\* voc_to_hdf5._main: the four add_to_dataset calls, then close
\* ------------------------------------------------------------------------
Passes == <<"train2007", "train2012", "val", "test">>
PassSet == {Passes[k] : k \in 1..Len(Passes)}

\* the arguments of each call, lines 182-195
PassYear(p) == IF p \in {"train2007", "test"} THEN "2007" ELSE "2012"
PassIdsMutantSwapped(p) ==
    CASE p = "train2007" -> train_ids
      [] p = "train2012" -> train_ids_2007
      [] p = "val" -> val_ids
      [] p = "test" -> test_ids
PassIds(p) ==
    CASE p = "train2007" -> train_ids_2007
      [] p = "train2012" -> train_ids
      [] p = "val" -> val_ids
      [] p = "test" -> test_ids
PassSplit(p) ==
    CASE p \in {"train2007", "train2012"} -> "train"
      [] p = "val" -> "val"
      [] p = "test" -> "test"
PassStartMutantNoPlusOne(p) == IF p = "train2012" THEN last_2007 ELSE 0
PassStart(p) == IF p = "train2012" THEN last_2007 + 1 ELSE 0
AfterPass(p) ==
    CASE p = "train2007" -> "train2012"
      [] p = "train2012" -> "val"
      [] p = "val" -> "test"
      [] p = "test" -> "close"

InitC ==
    /\ nLines \in [ListFiles -> 0..MaxIds]
    /\ shift \in 0..(Len(AnnoSamples) - 1)
    /\ pc = "train2007"
    /\ status = "running"
    /\ err = "none"
    /\ i = Unbound
    /\ last_2007 = Unbound
    /\ images = [s \in Splits |-> [k \in 1..DatasetShape(s) |-> Empty]]
    /\ boxes = [s \in Splits |-> [k \in 1..DatasetShape(s) |-> Empty]]
    /\ writes = [s \in Splits |-> [k \in 1..DatasetShape(s) |-> 0]]
    /\ closed = FALSE

\* the index enumerate() yields next
NextIndex == IF i = Unbound THEN 0 ELSE i + 1

\* What the fetch and the parse of one iteration can do
Outcomes == {"ok", "ImageNotFound", "AnnotationError"}

\* lines 134-137: both reads come before both assignments, so an iteration
\* assigns images[start + i] only when neither read raised
AssignsImageMutantEarly(outcome) == outcome \in {"ok", "AnnotationError"}
AssignsImage(outcome) == outcome = "ok"
AssignsBoxes(outcome) == outcome = "ok"

\* one iteration of add_to_dataset's loop
add_to_dataset_iter ==
    /\ status = "running"
    /\ pc \in PassSet
    /\ NextIndex < Len(PassIds(pc))
    /\ \E outcome \in Outcomes :
         LET split == PassSplit(pc)
             voc_id == PassIds(pc)[NextIndex + 1]
             image_data == get_image_for_id(PassYear(pc), voc_id)
             image_boxes == get_boxes_for_id(AnnoFile(PassYear(pc), voc_id))
             idx == PassStart(pc) + NextIndex
             inRange == idx >= 0 /\ idx < Len(images[split])
         IN  /\ i' = NextIndex
             /\ images' = IF AssignsImage(outcome) /\ inRange
                          THEN [images EXCEPT ![split][idx + 1] = image_data]
                          ELSE images
             /\ boxes' = IF AssignsBoxes(outcome) /\ inRange
                         THEN [boxes EXCEPT ![split][idx + 1] = image_boxes]
                         ELSE boxes
             /\ writes' = IF AssignsBoxes(outcome) /\ inRange
                          THEN [writes EXCEPT ![split][idx + 1] = @ + 1]
                          ELSE writes
             /\ status' = IF outcome = "ok" /\ inRange THEN "running" ELSE "aborted"
             /\ err' = IF outcome # "ok" THEN outcome
                       ELSE IF inRange THEN "none" ELSE "IndexError"
    /\ UNCHANGED <<nLines, shift, pc, last_2007, closed>>

\* the loop is exhausted: `return i`, and _main goes on to its next statement
add_to_dataset_return ==
    /\ status = "running"
    /\ pc \in PassSet
    /\ NextIndex = Len(PassIds(pc))
    /\ IF i = Unbound
       THEN \* ids was empty: i was never bound, `return i` raises
            /\ status' = "aborted"
            /\ err' = "UnboundLocalError"
            /\ UNCHANGED <<pc, i, last_2007>>
       ELSE /\ last_2007' = IF pc = "train2007" THEN i ELSE last_2007
            /\ pc' = AfterPass(pc)
            /\ i' = Unbound
            /\ UNCHANGED <<status, err>>
    /\ UNCHANGED <<nLines, shift, images, boxes, writes, closed>>

\* voc_h5file.close()
close ==
    /\ status = "running"
    /\ pc = "close"
    /\ closed' = TRUE
    /\ status' = "done"
    /\ UNCHANGED <<nLines, shift, pc, err, i, last_2007, images, boxes, writes>>

\* ------------------------------------------------------------------------
\* voc_to_tfrecords: np.linspace(0, N, num_shards + 1).astype(int)
\* ------------------------------------------------------------------------
RECURSIVE GCD(_, _)
GCD(a, b) == IF b = 0 THEN a ELSE GCD(b, a % b)

RECURSIVE IsPowerOfTwo(_)
IsPowerOfTwo(n) == n = 1 \/ (n > 1 /\ n % 2 = 0 /\ IsPowerOfTwo(n \div 2))

\* step = N / num_shards is an exact double iff the reduced denominator is a
\* power of two (the numbers are far below 2^53)
StepIsExact(N, k) == N = 0 \/ IsPowerOfTwo(k \div GCD(N, k))

\* linspace's point j is the double product j * step.  Its error is far smaller
\* than 1/k, so truncation can differ from the exact quotient's floor only
\* where j * N / k is an integer q and step is inexact: the product may then
\* round just below q and truncate to q - 1 (so np.linspace(0, 122, 15)
\* .astype(int)[7] is 60).  Which of the two happens depends on the operands'
\* bits; both are allowed here.
MayRoundBelow(j, N, k) ==
    /\ 0 < j
    /\ j < k
    /\ (j * N) % k = 0
    /\ ~StepIsExact(N, k)

\* astype(int) truncates toward zero
TruncatedMutantRound(j, N, k) == (2 * j * N + k) \div (2 * k)
Truncated(j, N, k) == (j * N) \div k

\* endpoint=True: the last point is set to stop itself
LastPointMutantNoEndpoint(N, k) == (k * N) \div (k + 1)
LastPoint(N, k) == N

LinspaceInts(N, k) ==
    { [jj \in 1..(k + 1) |->
          IF jj = k + 1 THEN LastPoint(N, k)
          ELSE Truncated(jj - 1, N, k) - (IF (jj - 1) \in below THEN 1 ELSE 0)] :
      below \in SUBSET { j \in 0..k : MayRoundBelow(j, N, k) } }

\* ------------------------------------------------------------------------
\* voc_to_tfrecords: process_image, convert_to_example, process_dataset
\* ------------------------------------------------------------------------
ShapeSamples == << <<2, 4>>, <<5, 3>>, <<4, 2>> >>

\* decode_jpeg(..., channels=3): the array's shape
DecodedShape(k) == << image_paths[k + 1][1], image_paths[k + 1][2], 3 >>

\* process_image lines 56-59: height = image.shape[0], width = image.shape[2]
process_image(k) ==
    LET image_data == <<"jpg", k>>
        shape == DecodedShape(k)
        height == shape[0 + 1]
        width == shape[2 + 1]
    IN  <<image_data, height, width>>

\* the annotation behind anno_paths[k]
AnnoAt(k) == AnnoSamples[(k % Len(AnnoSamples)) + 1]

\* [b[key] for b in boxes]
Column(bs, key) == [n \in 1..Len(bs) |-> bs[n][key]]

convert_to_example(image_data, bs, filename, height, width) ==
    [ filename |-> filename,
      height |-> height,
      width |-> width,
      classes |-> Column(bs, "class"),
      y_mins |-> Column(bs, "y_min"),
      x_mins |-> Column(bs, "x_min"),
      y_maxes |-> Column(bs, "y_max"),
      x_maxes |-> Column(bs, "x_max"),
      encoded |-> image_data ]

InitS ==
    /\ \E N \in 0..MaxImages, v \in 0..(Len(ShapeSamples) - 1) :
         image_paths = [k \in 1..N |-> ShapeSamples[((k + v) % Len(ShapeSamples)) + 1]]
    /\ num_shards \in 1..MaxShards
    /\ shard_ranges = <<>>
    /\ spc = "start"
    /\ shard = 0
    /\ cur = 0
    /\ writer = [s \in 1..num_shards |-> "NOT_STARTED"]
    /\ opens = [s \in 1..num_shards |-> 0]
    /\ closes = [s \in 1..num_shards |-> 0]
    /\ shardFile = [s \in 1..num_shards |-> <<>>]
    /\ counter = 0

\* line 169-170
compute_shard_ranges ==
    /\ spc = "start"
    /\ shard_ranges' \in LinspaceInts(Len(image_paths), num_shards)
    /\ spc' = "open"
    /\ UNCHANGED <<image_paths, num_shards, shard, cur, writer, opens, closes,
                   shardFile, counter>>

\* lines 173-178: writer = TFRecordWriter(output_file) for the current shard
open_writer ==
    /\ spc = "open"
    /\ shard < num_shards
    /\ writer' = [writer EXCEPT ![shard + 1] = "WRITING"]
    /\ opens' = [opens EXCEPT ![shard + 1] = @ + 1]
    /\ shardFile' = [shardFile EXCEPT ![shard + 1] = <<>>]
    /\ cur' = shard_ranges[shard + 1]
    /\ spc' = "write"
    /\ UNCHANGED <<image_paths, num_shards, shard_ranges, shard, closes, counter>>

DecodeOutcomes == {"ok", "ImageDecodeError", "AnnotationError"}

\* lines 179-199: one iteration of the loop over files_in_shard
write_record ==
    /\ spc = "write"
    /\ cur < shard_ranges[shard + 2]
    /\ \E outcome \in DecodeOutcomes :
         LET img == process_image(cur)
             bs == process_anno(AnnoAt(cur))
             example == convert_to_example(img[1], bs, cur, img[2], img[3])
         IN  IF outcome = "ok"
             THEN /\ shardFile' = [shardFile EXCEPT ![shard + 1] = Append(@, example)]
                  /\ counter' = counter + 1
                  /\ cur' = cur + 1
                  /\ UNCHANGED spc
             ELSE /\ spc' = "aborted"
                  /\ UNCHANGED <<shardFile, counter, cur>>
    /\ UNCHANGED <<image_paths, num_shards, shard_ranges, shard, writer, opens, closes>>

\* line 200: writer.close()
WriterClosedMutantLeftOpen(w, s) == w
WriterClosed(w, s) == [w EXCEPT ![s + 1] = "CLOSED"]

\* lines 200-205: the shard's range is exhausted; next shard, or return
close_writer ==
    /\ spc = "write"
    /\ cur >= shard_ranges[shard + 2]
    /\ writer' = WriterClosed(writer, shard)
    /\ closes' = [closes EXCEPT ![shard + 1] = @ + 1]
    /\ shard' = shard + 1
    /\ spc' = IF shard + 1 < num_shards THEN "open" ELSE "returned"
    /\ UNCHANGED <<image_paths, num_shards, shard_ranges, cur, shardFile, opens, counter>>

\* ------------------------------------------------------------------------
\* The annotation parsers applied to one annotation file
\* ------------------------------------------------------------------------
RECURSIVE SeqsUpTo(_, _)
SeqsUpTo(S, n) ==
    IF n = 0 THEN {<<>>}
    ELSE LET shorter == SeqsUpTo(S, n - 1)
         IN  shorter \cup {Append(q, x) : q \in {r \in shorter : Len(r) = n - 1}, x \in S}

InitA ==
    /\ \E sz \in Sizes, objs \in SeqsUpTo(ObjectEntries, MaxObjs) :
         anno = [height |-> sz[1], width |-> sz[2], objects |-> objs]
    /\ h5_out = NotRun
    /\ tf_out = NotRun

call_get_boxes_for_id ==
    /\ ~h5_out.ran
    /\ h5_out' = Returned(get_boxes_for_id(anno))
    /\ UNCHANGED <<anno, tf_out>>

call_process_anno ==
    /\ ~tf_out.ran
    /\ tf_out' = Returned(process_anno(anno))
    /\ UNCHANGED <<anno, h5_out>>

\* ------------------------------------------------------------------------
\* Specifications.  The variables of the programs a specification does not
\* run keep their idle values.
\* ------------------------------------------------------------------------
IdleC ==
    /\ nLines = [f \in ListFiles |-> 0]
    /\ shift = 0
    /\ pc = "idle"
    /\ status = "idle"
    /\ err = "none"
    /\ i = Unbound
    /\ last_2007 = Unbound
    /\ images = <<>>
    /\ boxes = <<>>
    /\ writes = <<>>
    /\ closed = FALSE

IdleS ==
    /\ image_paths = <<>>
    /\ num_shards = 0
    /\ shard_ranges = <<>>
    /\ spc = "idle"
    /\ shard = 0
    /\ cur = 0
    /\ writer = <<>>
    /\ opens = <<>>
    /\ closes = <<>>
    /\ shardFile = <<>>
    /\ counter = 0

IdleA ==
    /\ anno = NotRun
    /\ h5_out = NotRun
    /\ tf_out = NotRun

Init == InitC /\ IdleS /\ IdleA
HdfIter == add_to_dataset_iter /\ UNCHANGED <<varsS, varsA>>
HdfReturn == add_to_dataset_return /\ UNCHANGED <<varsS, varsA>>
HdfClose == close /\ UNCHANGED <<varsS, varsA>>
Next == HdfIter \/ HdfReturn \/ HdfClose
Spec == Init /\ [][Next]_vars

InitShards == IdleC /\ InitS /\ IdleA
ShardRanges == compute_shard_ranges /\ UNCHANGED <<varsC, varsA>>
ShardOpen == open_writer /\ UNCHANGED <<varsC, varsA>>
ShardWrite == write_record /\ UNCHANGED <<varsC, varsA>>
ShardClose == close_writer /\ UNCHANGED <<varsC, varsA>>
NextShards == ShardRanges \/ ShardOpen \/ ShardWrite \/ ShardClose
SpecShards == InitShards /\ [][NextShards]_vars

InitAnno == IdleC /\ IdleS /\ InitA
AnnoHdf == call_get_boxes_for_id /\ UNCHANGED <<varsC, varsS>>
AnnoTf == call_process_anno /\ UNCHANGED <<varsC, varsS>>
NextAnno == AnnoHdf \/ AnnoTf
SpecAnno == InitAnno /\ [][NextAnno]_vars

\* ------------------------------------------------------------------------
\* Properties of the container serializer (specification Spec)
\* ------------------------------------------------------------------------
\* the (year, identifier) pairs a split receives, in the order the
\* add_to_dataset calls of _main process them
RECURSIVE AssembledFrom(_, _)
AssembledFrom(passes, split) ==
    IF passes = <<>> THEN <<>>
    ELSE LET p == Head(passes)
             here == IF PassSplit(p) = split
                     THEN [k \in 1..Len(PassIds(p)) |-> <<PassYear(p), PassIds(p)[k]>>]
                     ELSE <<>>
         IN  here \o AssembledFrom(Tail(passes), split)
Assembled(split) == AssembledFrom(Passes, split)

HoldsEntryOf(split, k, year, image_id) ==
    /\ images[split][k] = <<"jpg", year, image_id>>
    /\ boxes[split][k] = get_boxes_for_id(AnnoFile(year, image_id))

Unwritten(split, k) ==
    /\ images[split][k] = Empty
    /\ boxes[split][k] = Empty
    /\ writes[split][k] = 0

\* C1: after a completed conversion, each split's images and boxes arrays have
\* as many entries as the split has identifiers, and entry i of both arrays
\* holds the payload and the boxes of the split's i-th identifier in the order
\* the identifiers were processed.
C1_StorageIndexIsAssemblyOrder ==
    status = "done" =>
        \A s \in Splits :
            /\ Len(images[s]) = Len(Assembled(s))
            /\ Len(boxes[s]) = Len(Assembled(s))
            /\ \A k \in 1..Len(Assembled(s)) :
                 HoldsEntryOf(s, k, Assembled(s)[k][1], Assembled(s)[k][2])

C1_Witness ==
    /\ status = "done"
    /\ Len(images["train"]) >= 4
    /\ Len(images["val"]) = 2
    /\ Len(images["test"]) = 2

\* C7 as claimed: in the finished train split the 2012 train identifiers occupy
\* [0, n12) and the 2007 identifiers occupy [n12, n12 + n07).
C7_Claimed2012First ==
    status = "done" =>
        /\ \A j \in 1..Len(train_ids) :
             images["train"][j] = <<"jpg", "2012", train_ids[j]>>
        /\ \A j \in 1..Len(train_ids_2007) :
             images["train"][Len(train_ids) + j] = <<"jpg", "2007", train_ids_2007[j]>>

\* C7 (amended): in the train split the 2007 group comes first: every written
\* entry at index j < n07 holds the j-th 2007 identifier, every written entry
\* at index n07 + j holds the j-th 2012 train identifier, and a completed
\* conversion has written all n07 + n12 entries.
C7_Train2007ThenTrain2012 ==
    LET n07 == Len(train_ids_2007)
        n12 == Len(train_ids)
    IN  /\ Len(images["train"]) = n07 + n12
        /\ \A k \in 1..(n07 + n12) :
             /\ status = "done" => writes["train"][k] = 1
             /\ writes["train"][k] >= 1 =>
                  IF k <= n07
                  THEN HoldsEntryOf("train", k, "2007", train_ids_2007[k])
                  ELSE HoldsEntryOf("train", k, "2012", train_ids[k - n07])

C7_Witness ==
    /\ status = "done"
    /\ Len(train_ids_2007) >= 3
    /\ Len(train_ids) = 2
    /\ images["train"][1] = <<"jpg", "2007", <<"train", 1>>>>
    /\ images["train"][Len(train_ids_2007) + 2] = <<"jpg", "2012", <<"train", 2>>>>

\* C9: the two passes over the train split write disjoint ranges that cover
\* [0, total_train_ids) exactly once for all group sizes n_first, n_second >= 0;
\* add_to_dataset returns normally for an empty identifier list.
C9_TrainPassesCoverForAllSizes ==
    /\ ~(err = "UnboundLocalError" /\ pc \in {"train2007", "train2012"})
    /\ pc \in {"val", "test", "close"} =>
         \A k \in 1..total_train_ids : writes["train"][k] = 1

\* the splits of the calls that come after call p
RECURSIVE LaterSplits(_, _)
LaterSplits(passes, p) ==
    IF passes = <<>> THEN {}
    ELSE IF Head(passes) = p THEN {PassSplit(Tail(passes)[k]) : k \in 1..Len(Tail(passes))}
    ELSE LaterSplits(Tail(passes), p)

C6_StateInv ==
    /\ status = "aborted" => ~closed
    /\ (status = "aborted" /\ err \in {"ImageNotFound", "AnnotationError"}) =>
         /\ \A k \in (PassStart(pc) + i + 1)..Len(images[PassSplit(pc)]) :
              Unwritten(PassSplit(pc), k)
         /\ \A s \in LaterSplits(Passes, pc) \ {PassSplit(pc)} :
              \A k \in 1..Len(images[s]) : Unwritten(s, k)
    /\ closed =>
         /\ status = "done"
         /\ \A s \in Splits : \A k \in 1..Len(Assembled(s)) :
              /\ writes[s][k] >= 1
              /\ images[s][k] # Empty

\* C6: a failed fetch or parse aborts the run: nothing is written for the
\* failing identifier nor for any later identifier or split, nothing happens
\* after the abort, and the file is closed only after every identifier of
\* train, val and test has been written.
C6_FailureAbortsBeforeClose ==
    /\ []C6_StateInv
    /\ [][status = "aborted" => UNCHANGED <<images, boxes, writes, closed, status>>]_vars

C6_Witness ==
    /\ status = "aborted"
    /\ err = "AnnotationError"
    /\ pc = "train2012"
    /\ i = 1
    /\ writes["train"][1] = 1
    /\ Len(images["val"]) = 2

\* the boxes the parser builds for an annotation, one 5-tuple per kept object
KeptObjects(objs) == SelectSeq(objs, LAMBDA o : ~Skips(o))
ParserTuples(objs) == [n \in 1..Len(KeptObjects(objs)) |-> bbox(KeptObjects(objs)[n])]

\* reading an entry back in groups of 5
Groups5(flat) == [n \in 1..(Len(flat) \div 5) |-> SubSeq(flat, 5 * (n - 1) + 1, 5 * n)]

Qualifies(o) ==
    /\ \E n \in 1..Len(classes) : classes[n] = o.name
    /\ IntOfText(o.difficult) # 1
Position(name) == (CHOOSE n \in 1..Len(classes) : classes[n] = name) - 1
Qualifying == SelectSeq(anno.objects, Qualifies)

ExampleObjects ==
    << [name |-> "person", difficult |-> "0", bndbox |-> <<"10", "20", "30", "40">>],
       [name |-> "dog", difficult |-> "1", bndbox |-> <<"1", "2", "3", "4">>] >>

\* C5: both parsers emit exactly one box per object whose class is listed and
\* whose difficult flag is not 1, in document order, with the class id equal
\* to the class name's position in the class list; person (difficult 0, box
\* 10,20,30,40) plus dog (difficult 1) gives the single box (14,10,20,30,40).
C5_ParsersKeepListedEasyObjects ==
    /\ h5_out.ran =>
         /\ Len(h5_out.value) = 5 * Len(Qualifying)
         /\ \A n \in 1..Len(Qualifying) :
              /\ h5_out.value[5 * n - 4] = Position(Qualifying[n].name)
              /\ \A c \in 1..4 :
                   h5_out.value[5 * n - 4 + c] = IntOfText(Qualifying[n].bndbox[c])
         /\ anno.objects = ExampleObjects => h5_out.value = <<14, 10, 20, 30, 40>>
    /\ tf_out.ran =>
         /\ Len(tf_out.value) = Len(Qualifying)
         /\ \A n \in 1..Len(Qualifying) :
              /\ tf_out.value[n].class = Position(Qualifying[n].name)
              /\ tf_out.value[n].x_min[1] = IntOfText(Qualifying[n].bndbox[1])
              /\ tf_out.value[n].y_min[1] = IntOfText(Qualifying[n].bndbox[2])
              /\ tf_out.value[n].x_max[1] = IntOfText(Qualifying[n].bndbox[3])
              /\ tf_out.value[n].y_max[1] = IntOfText(Qualifying[n].bndbox[4])

C5_Witness ==
    /\ h5_out.ran
    /\ tf_out.ran
    /\ anno.objects = ExampleObjects
    /\ h5_out.value = <<14, 10, 20, 30, 40>>
    /\ Len(tf_out.value) = 1
    /\ tf_out.value[1].class = 14

\* ------------------------------------------------------------------------
\* Properties of the sharded serializer (specification SpecShards)
\* ------------------------------------------------------------------------
NumImages == Len(image_paths)
RangesKnown == spc \in {"open", "write", "returned", "aborted"}

\* the shards whose range holds index idx
ShardsHolding(idx) ==
    { s \in 0..(num_shards - 1) :
        shard_ranges[s + 1] <= idx /\ idx < shard_ranges[s + 2] }

\* the places <<shard, n>> of the records written for index idx
RecordsOf(idx) ==
    { <<s, n>> \in (0..(num_shards - 1)) \X (1..NumImages) :
        n <= Len(shardFile[s + 1]) /\ shardFile[s + 1][n].filename = idx }

RECURSIVE TotalRecords(_)
TotalRecords(s) ==
    IF s = 0 THEN 0 ELSE Len(shardFile[s]) + TotalRecords(s - 1)

\* C2: the shard ranges partition [0, N): every index lies in exactly one
\* range; so a run that returns has written each image as one record to
\* exactly one shard file, N records in all.
C2_ShardsPartitionImages ==
    /\ RangesKnown =>
         \A idx \in 0..(NumImages - 1) : Cardinality(ShardsHolding(idx)) = 1
    /\ spc = "returned" =>
         /\ \A idx \in 0..(NumImages - 1) :
              /\ Cardinality(RecordsOf(idx)) = 1
              /\ \A place \in RecordsOf(idx) : place[1] \in ShardsHolding(idx)
         /\ TotalRecords(num_shards) = NumImages
         /\ counter = NumImages

C2_Witness ==
    /\ spc = "returned"
    /\ NumImages = 10
    /\ num_shards = 6
    /\ shard_ranges[4] = 4
    /\ Len(shardFile[3]) = 1

\* C3 as claimed: the boundaries are the evenly spaced points rounded to
\* integers, [0, 3, 7, 10] for 3 shards of 10 images.
C3_ClaimedRounded ==
    (RangesKnown /\ NumImages = 10 /\ num_shards = 3) =>
        shard_ranges = <<0, 3, 7, 10>>

\* C3 (amended): the boundaries are the num_shards + 1 evenly spaced points
\* j * (N / num_shards) truncated toward zero: boundary j is the floor of
\* j * N / num_shards (one less only where that quotient is an exact integer
\* that the floating-point product falls just short of), the first is 0 and
\* the last is N; 3 shards of 10 images get [0, 3, 6, 10], indices 0-2, 3-5, 6-9.
C3_BoundariesTruncated ==
    RangesKnown =>
        /\ Len(shard_ranges) = num_shards + 1
        /\ shard_ranges[1] = 0
        /\ shard_ranges[num_shards + 1] = NumImages
        /\ \A j \in 0..num_shards :
             LET q == (j * NumImages) \div num_shards
             IN  \/ shard_ranges[j + 1] = q
                 \/ /\ shard_ranges[j + 1] = q - 1
                    /\ (j * NumImages) % num_shards = 0
                    /\ NumImages % num_shards # 0
                    /\ 0 < j /\ j < num_shards
        /\ (NumImages = 10 /\ num_shards = 3) => shard_ranges = <<0, 3, 6, 10>>

C3_Witness ==
    /\ spc = "returned"
    /\ NumImages = 10
    /\ num_shards = 3
    /\ Len(shardFile[1]) = 3
    /\ Len(shardFile[2]) = 3
    /\ Len(shardFile[3]) = 4
    /\ shardFile[3][1].filename = 6

\* C4: every record's height and width fields are the pixel height and the
\* pixel width of the decoded image.
C4_RecordCarriesPixelSize ==
    \A s \in 1..Len(shardFile) : \A n \in 1..Len(shardFile[s]) :
        LET r == shardFile[s][n]
        IN  /\ r.height = image_paths[r.filename + 1][1]
            /\ r.width = image_paths[r.filename + 1][2]

C10_StateInv ==
    /\ Cardinality({s \in 1..num_shards : writer[s] = "WRITING"}) <= 1
    /\ \A s \in 1..num_shards :
         /\ writer[s] # "NOT_STARTED" => \A t \in 1..(s - 1) : writer[t] = "CLOSED"
         /\ opens[s] <= 1
         /\ closes[s] <= opens[s]
         /\ writer[s] = "NOT_STARTED" <=> opens[s] = 0
         /\ writer[s] = "CLOSED" <=> closes[s] = 1
         /\ writer[s] = "NOT_STARTED" => shardFile[s] = <<>>
    /\ spc = "returned" =>
         \A s \in 1..num_shards :
             opens[s] = 1 /\ closes[s] = 1 /\ writer[s] = "CLOSED"

C10_Step ==
    \A s \in 1..num_shards :
        /\ writer[s] = "CLOSED" => writer'[s] = "CLOSED"
        /\ (writer[s] # "WRITING" /\ writer'[s] = "WRITING") =>
             /\ writer[s] = "NOT_STARTED"
             /\ \A t \in 1..(s - 1) : writer[t] = "CLOSED"
        /\ shardFile'[s] # shardFile[s] =>
             writer[s] = "WRITING" /\ writer'[s] = "WRITING"

\* C10: each shard file goes NOT_STARTED -> WRITING -> CLOSED: at most one
\* writer is open at a time, shard s is opened only after shard s-1 was closed,
\* a closed shard is never reopened, records go only to the open shard, and a
\* run that returns has opened and closed every shard exactly once, empty
\* shards included.
C10_ShardLifecycle ==
    /\ []C10_StateInv
    /\ [][C10_Step]_vars

C10_Witness ==
    /\ spc = "returned"
    /\ num_shards = 4
    /\ NumImages = 2
    /\ \E s \in 1..num_shards : shardFile[s] = <<>> /\ closes[s] = 1
    /\ \E s \in 1..num_shards : Len(shardFile[s]) = 1

====
